---- MODULE Spec2Model ----
(***************************************************************************)
(* Conversation-routing graph of the PC-build assistant: the dialog-stack  *)
(* reducer, the tool node with fallback, the entry/exit nodes, the routers *)
(* and the graph that wires them (src/src/agent_shema/mult_agents_graph.py *)
(* and its helpers).                                                       *)
(***************************************************************************)
EXTENDS Integers, Sequences, FiniteSets, TLC

\* ---------------------------------------------------------------- bounds
MaxStack == 3
MaxBatch == 2
MaxMsgs == 6
MaxRetries == 2
MaxIds == 2
MaxLimit == 5

\* ------------------------------------------------------------- constants
\* Python's None as the right operand of the reducer / a missing call id.
None == "None"
NoId == 0
\* tool_call_id="" written by handle_tool_error when no call is found.
EmptyToolCallId == -1
\* tool_call_id="unknown_tool_call_id" written by entry_node.
UnknownToolCallId == -2

ToPCBuildAssistant == "ToPCBuildAssistant"
ToPriceValidationCheckerAssistant == "ToPriceValidationCheckerAssistant"
CompleteOrEscalate == "CompleteOrEscalate"
\* an ordinary tool (bound to the PC-build skill only)
PcBuilderTool == "pc_builder_tool"
\* an ordinary tool (bound to the price-validation skill only)
RegardParserTool == "regard_parser_tool"
ToolNames == {ToPCBuildAssistant, ToPriceValidationCheckerAssistant,
              CompleteOrEscalate, PcBuilderTool, RegardParserTool}

\* the tool lists the three tools nodes are built from
primary_assistant_tools == {ToPCBuildAssistant, ToPriceValidationCheckerAssistant}
pc_build_tools == {PcBuilderTool, "question_answer_tool"}
price_validation_checker_tools ==
  {RegardParserTool, "calculate_bottleneck", "game_run_tool"}

\* Literal["assistant", "build_pc", "validate_price"] of State.dialog_state
StackNames == {"assistant", "build_pc", "validate_price"}
\* values a node may hand to the reducer: None, "pop", the three names and
\* two names outside the closed set
Ops == {None, "pop", "assistant", "build_pc", "validate_price",
        "primary_assistant", "price_validation_checker"}

END == "__end__"
START == "__start__"

\* config = {"configurable": {..., "recursion_limit": 50}} of the chat backend
ConfiguredRecursionLimit == 50

VARIABLES
  messages,      \* State.messages of the thread (persisted history)
  dialog_state,  \* State.dialog_state of the thread
  user_info,     \* State.user_info of the thread
  shared_memory, \* AgenticGraph.shared_memory["last_query"]
  node,          \* the node the graph executes next
  prev,          \* the node that executed last
  retries,       \* synthetic prompts in the running Assistant's local state
  next_id,       \* ids handed out to the model's tool calls so far
  error,         \* exception that ended the last write / turn, or "none"
  saved_stack,   \* dialog_state when the last delegation was routed
  writes,        \* the last two calls of the dialog_state reducer
  recursion_limit, \* the step limit the turns run under
  path,          \* the nodes executed so far in the current turn
  turn_base,     \* length of the history before the current turn
  local_messages, \* messages of the running Assistant's local state
  run,           \* invocations / empty answers of the last Assistant run
  tool_failures, \* calls of the last tools node batch whose tool failed
  args,          \* input of a function applied on its own
  fn,            \* the function applied on its own, or "none"
  ret            \* what it returned

vars == <<messages, dialog_state, user_info, shared_memory, node, prev,
          retries, next_id, error, saved_stack, writes, recursion_limit,
          path, turn_base, local_messages, run, tool_failures,
          args, fn, ret>>

graph_vars == <<messages, user_info, shared_memory, node, prev, retries,
                next_id, saved_stack, recursion_limit, path, turn_base,
                local_messages, run, tool_failures>>
fn_vars == <<args, fn, ret>>

\* ------------------------------------------------------ dialog-stack rule
Return(v) == [raised |-> FALSE, value |-> v]
Raise(e) == [raised |-> TRUE, value |-> e]

\* the reducer without the membership test: any name is pushed
update_dialog_stack_unchecked(left, right) ==
  IF right = None THEN Return(left)
  ELSE IF right = "pop" /\ left # <<>>
       THEN Return(SubSeq(left, 1, Len(left) - 1))
  ELSE Return(left \o <<right>>)

\* the reducer without the None test: None falls through to the membership test
update_dialog_stack_nonone(left, right) ==
  IF right = "pop" /\ left # <<>>
       THEN Return(SubSeq(left, 1, Len(left) - 1))
  ELSE IF right \notin {"assistant", "build_pc", "validate_price"}
       THEN Raise("ValueError")
  ELSE Return(left \o <<right>>)

\* the reducer pushing in front instead of at the end
update_dialog_stack_prepend(left, right) ==
  IF right = None THEN Return(left)
  ELSE IF right = "pop" /\ left # <<>>
       THEN Return(SubSeq(left, 1, Len(left) - 1))
  ELSE IF right \notin {"assistant", "build_pc", "validate_price"}
       THEN Raise("ValueError")
  ELSE Return(<<right>> \o left)

\* the reducer leaving the stack as it is on "pop"
update_dialog_stack_keep(left, right) ==
  IF right = None THEN Return(left)
  ELSE IF right = "pop" /\ left # <<>> THEN Return(left)
  ELSE IF right \notin {"assistant", "build_pc", "validate_price"}
       THEN Raise("ValueError")
  ELSE Return(left \o <<right>>)

update_dialog_stack(left, right) ==
  IF right = None THEN Return(left)
  ELSE IF right = "pop" /\ left # <<>>
       THEN Return(SubSeq(left, 1, Len(left) - 1))
  ELSE IF right \notin {"assistant", "build_pc", "validate_price"}
       THEN Raise("ValueError")
  ELSE Return(left \o <<right>>)

\* The dialog_state channel: a node's write goes through the reducer; when
\* the reducer raises the step fails and the channel keeps its value.
\* writes keeps the last two reducer calls: operand, stack before and after.
LastTwo(s) == IF Len(s) > 2 THEN SubSeq(s, Len(s) - 1, Len(s)) ELSE s

\* the channel without its reducer: the value written replaces the stack
WriteDialogState_noreducer(op) ==
  /\ error' = "none"
  /\ dialog_state' = <<op>>
  /\ writes' = LastTwo(writes \o <<[op |-> op, before |-> dialog_state,
                                    raised |-> FALSE,
                                    after |-> dialog_state']>>)

WriteDialogState(op) ==
  LET r == update_dialog_stack(dialog_state, op) IN
  /\ IF r.raised
     THEN /\ error' = r.value
          /\ dialog_state' = dialog_state
     ELSE /\ error' = "none"
          /\ dialog_state' = r.value
  /\ writes' = LastTwo(writes \o <<[op |-> op, before |-> dialog_state,
                                    raised |-> r.raised,
                                    after |-> dialog_state']>>)

Stacks(n) == UNION {[1..k -> StackNames] : k \in 0..n}

InitStack ==
  /\ messages = <<>>
  /\ dialog_state \in Stacks(MaxStack)
  /\ user_info = None
  /\ shared_memory = [last_query |-> None]
  /\ node = START
  /\ prev = START
  /\ retries = 0
  /\ next_id = 0
  /\ error = "none"
  /\ saved_stack = <<>>
  /\ writes = <<>>
  /\ recursion_limit = ConfiguredRecursionLimit
  /\ path = <<>>
  /\ turn_base = 0
  /\ local_messages = <<>>
  /\ run = [invocations |-> 0, empties |-> 0, done |-> FALSE]
  /\ tool_failures = {}
  /\ args = None
  /\ fn = "none"
  /\ ret = None

ReduceDialogState ==
  \E op \in Ops :
    /\ op \in StackNames => Len(dialog_state) < MaxStack
    /\ WriteDialogState(op)
    /\ UNCHANGED graph_vars
    /\ UNCHANGED fn_vars

NextStack == ReduceDialogState

SpecStack == InitStack /\ [][NextStack]_vars

\* --------------------------------------------------------------- messages
Last(s) == s[Len(s)]

AIMessage(content, tool_calls) ==
  [type |-> "ai", content |-> content, tool_calls |-> tool_calls,
   tool_call_id |-> NoId, name |-> None, error |-> None]
HumanMessage(content) ==
  [type |-> "human", content |-> content, tool_calls |-> <<>>,
   tool_call_id |-> NoId, name |-> None, error |-> None]
\* error is the exception whose rendering the content embeds, None if none
ToolMessage(content, tool_call_id, name, err) ==
  [type |-> "tool", content |-> content, tool_calls |-> <<>>,
   tool_call_id |-> tool_call_id, name |-> name, error |-> err]

\* isinstance(m, AIMessage) and m.tool_calls
CallsOf(last_message) ==
  IF last_message.type = "ai" /\ last_message.tool_calls # <<>>
  THEN last_message.tool_calls
  ELSE <<>>

\* ----------------------------------------------- tool node with fallback
\* the fallback answering only the first call of the batch
handle_tool_error_firstonly(state) ==
  LET tool_calls == CallsOf(Last(state.messages)) IN
  IF tool_calls = <<>>
  THEN <<ToolMessage("error_no_call_id", EmptyToolCallId, "error_handler",
                     state.error)>>
  ELSE <<ToolMessage("error_fix_mistakes", tool_calls[1].id, None,
                     state.error)>>

\* the fallback with a fixed text that does not render the exception
handle_tool_error_norender(state) ==
  LET tool_calls == CallsOf(Last(state.messages)) IN
  IF tool_calls = <<>>
  THEN <<ToolMessage("error_no_call_id", EmptyToolCallId, "error_handler",
                     None)>>
  ELSE [i \in 1..Len(tool_calls) |->
          ToolMessage("error_fix_mistakes", tool_calls[i].id, None, None)]

handle_tool_error(state) ==
  LET tool_calls == CallsOf(Last(state.messages)) IN
  IF tool_calls = <<>>
  THEN <<ToolMessage("error_no_call_id", EmptyToolCallId, "error_handler",
                     state.error)>>
  ELSE [i \in 1..Len(tool_calls) |->
          ToolMessage("error_fix_mistakes", tool_calls[i].id, None,
                      state.error)]

\* langgraph's ToolNode(tools) on the state.  raises: the positions of the
\* batch whose tool raises; a call of a tool that is not in tools fails
\* too.  absorbs: whether this build of ToolNode turns a failing call into
\* an error ToolMessage itself or lets the exception out.
Failing(tools, tool_calls, raises) ==
  {i \in 1..Len(tool_calls) : i \in raises \/ tool_calls[i].name \notin tools}

ToolNode(tools, state, raises, absorbs) ==
  LET last_message == Last(state.messages)
      tool_calls == last_message.tool_calls
      failing == Failing(tools, tool_calls, raises)
  IN IF last_message.type # "ai" THEN Raise("ValueError")
     ELSE IF failing # {} /\ ~absorbs THEN Raise("ToolException")
     ELSE Return([i \in 1..Len(tool_calls) |->
            IF i \in failing
            THEN ToolMessage("tool_error", tool_calls[i].id,
                             tool_calls[i].name, "ToolException")
            ELSE ToolMessage("tool_result", tool_calls[i].id,
                             tool_calls[i].name, None)])

\* the bare ToolNode(tools), without with_fallbacks
create_tool_node_without_fallback(tools, state, raises, absorbs) ==
  LET r == ToolNode(tools, state, raises, absorbs) IN
  IF r.raised THEN r ELSE Return([messages |-> r.value])

\* ToolNode(tools).with_fallbacks([handle_tool_error], exception_key="error")
create_tool_node_with_fallback(tools, state, raises, absorbs) ==
  LET r == ToolNode(tools, state, raises, absorbs) IN
  IF r.raised
  THEN Return([messages |->
         handle_tool_error([messages |-> state.messages, error |-> r.value])])
  ELSE Return([messages |-> r.value])

\* ------------------------------------------------------ entry / exit nodes
\* the entry node addressing the last call of the batch instead of the first
create_entry_node_lastcall(assistant_name, new_dialog_state, state) ==
  LET tool_calls == CallsOf(Last(state.messages))
      tool_call_id == IF tool_calls # <<>> /\ Last(tool_calls).id # NoId
                      THEN Last(tool_calls).id ELSE NoId
  IN IF tool_call_id = NoId
     THEN [messages |-> <<ToolMessage("entry_no_call_id", UnknownToolCallId,
                                      assistant_name, None)>>,
           dialog_state |-> new_dialog_state]
     ELSE [messages |-> <<ToolMessage("entry_announcement", tool_call_id,
                                      None, None)>>,
           dialog_state |-> new_dialog_state]

\* the entry node giving up the push when it finds no call id
create_entry_node_nopush(assistant_name, new_dialog_state, state) ==
  LET tool_calls == CallsOf(Last(state.messages))
      tool_call_id == IF tool_calls # <<>> /\ tool_calls[1].id # NoId
                      THEN tool_calls[1].id ELSE NoId
  IN IF tool_call_id = NoId
     THEN [messages |-> <<ToolMessage("entry_no_call_id", UnknownToolCallId,
                                      assistant_name, None)>>,
           dialog_state |-> None]
     ELSE [messages |-> <<ToolMessage("entry_announcement", tool_call_id,
                                      None, None)>>,
           dialog_state |-> new_dialog_state]

create_entry_node(assistant_name, new_dialog_state, state) ==
  LET tool_calls == CallsOf(Last(state.messages))
      tool_call_id == IF tool_calls # <<>> /\ tool_calls[1].id # NoId
                      THEN tool_calls[1].id ELSE NoId
  IN IF tool_call_id = NoId
     THEN [messages |-> <<ToolMessage("entry_no_call_id", UnknownToolCallId,
                                      assistant_name, None)>>,
           dialog_state |-> new_dialog_state]
     ELSE [messages |-> <<ToolMessage("entry_announcement", tool_call_id,
                                      None, None)>>,
           dialog_state |-> new_dialog_state]

\* the exit node announcing the hand-back without popping the stack
leave_skill_nopop(state) ==
  LET tool_calls == CallsOf(Last(state.messages)) IN
  [dialog_state |-> None,
   messages |-> IF tool_calls # <<>> /\ tool_calls[1].id # NoId
                THEN <<ToolMessage("leave_announcement", tool_calls[1].id,
                                   None, None)>>
                ELSE <<>>]

\* the exit node answering with the sentinel id when it finds no call id
leave_skill_sentinel(state) ==
  LET tool_calls == CallsOf(Last(state.messages)) IN
  [dialog_state |-> "pop",
   messages |-> IF tool_calls # <<>> /\ tool_calls[1].id # NoId
                THEN <<ToolMessage("leave_announcement", tool_calls[1].id,
                                   None, None)>>
                ELSE <<ToolMessage("leave_announcement", UnknownToolCallId,
                                   None, None)>>]

leave_skill(state) ==
  LET tool_calls == CallsOf(Last(state.messages)) IN
  [dialog_state |-> "pop",
   messages |-> IF tool_calls # <<>> /\ tool_calls[1].id # NoId
                THEN <<ToolMessage("leave_announcement", tool_calls[1].id,
                                   None, None)>>
                ELSE <<>>]

\* ----------------------------------------------------------------- routers
\* langgraph.prebuilt.tools_condition
tools_condition(state) ==
  LET ai_message == Last(state.messages) IN
  IF ai_message.type = "ai" /\ Len(ai_message.tool_calls) > 0
  THEN "tools" ELSE END

\* the primary router looking for a delegation anywhere in the batch
route_primary_assistant_anycall(state) ==
  LET route == tools_condition(state)
      tool_calls == CallsOf(Last(state.messages))
  IN IF route = END THEN END
     ELSE IF \E i \in 1..Len(tool_calls) :
                tool_calls[i].name = ToPCBuildAssistant
          THEN "enter_build_pc"
     ELSE IF \E i \in 1..Len(tool_calls) :
                tool_calls[i].name = ToPriceValidationCheckerAssistant
          THEN "enter_validate_price"
     ELSE "primary_assistant_tools"

\* the primary router without the tools_condition test
route_primary_assistant_noend(state) ==
  LET tool_calls == CallsOf(Last(state.messages))
  IN IF tool_calls # <<>>
     THEN IF tool_calls[1].name = ToPCBuildAssistant THEN "enter_build_pc"
          ELSE IF tool_calls[1].name = ToPriceValidationCheckerAssistant
               THEN "enter_validate_price"
          ELSE "primary_assistant_tools"
     ELSE "primary_assistant_tools"

\* the primary router sending a cancel to the exit node
route_primary_assistant_cancels(state) ==
  LET route == tools_condition(state)
      tool_calls == CallsOf(Last(state.messages))
  IN IF route = END THEN END
     ELSE IF tool_calls # <<>>
     THEN IF tool_calls[1].name = ToPCBuildAssistant THEN "enter_build_pc"
          ELSE IF tool_calls[1].name = ToPriceValidationCheckerAssistant
               THEN "enter_validate_price"
          ELSE IF tool_calls[1].name = CompleteOrEscalate THEN "leave_skill"
          ELSE "primary_assistant_tools"
     ELSE "primary_assistant_tools"

route_primary_assistant(state) ==
  LET route == tools_condition(state)
      tool_calls == CallsOf(Last(state.messages))
  IN IF route = END THEN END
     ELSE IF tool_calls # <<>>
     THEN IF tool_calls[1].name = ToPCBuildAssistant THEN "enter_build_pc"
          ELSE IF tool_calls[1].name = ToPriceValidationCheckerAssistant
               THEN "enter_validate_price"
          ELSE "primary_assistant_tools"
     ELSE "primary_assistant_tools"

\* the skill router looking at the first call only
route_build_pc_firstonly(state) ==
  LET route == tools_condition(state)
      tool_calls == CallsOf(Last(state.messages))
  IN IF route = END THEN END
     ELSE IF tool_calls = <<>> THEN END
     ELSE IF tool_calls[1].name = CompleteOrEscalate THEN "leave_skill"
     ELSE "build_pc_tools"

\* the skill router handing a delegation on to the other skill
route_build_pc_delegates(state) ==
  LET route == tools_condition(state)
      tool_calls == CallsOf(Last(state.messages))
      did_cancel == \E i \in 1..Len(tool_calls) :
                       tool_calls[i].name = CompleteOrEscalate
  IN IF route = END THEN END
     ELSE IF tool_calls = <<>> THEN END
     ELSE IF did_cancel THEN "leave_skill"
     ELSE IF tool_calls[1].name = ToPriceValidationCheckerAssistant
          THEN "enter_validate_price"
     ELSE "build_pc_tools"

route_build_pc(state) ==
  LET route == tools_condition(state)
      tool_calls == CallsOf(Last(state.messages))
      did_cancel == \E i \in 1..Len(tool_calls) :
                       tool_calls[i].name = CompleteOrEscalate
  IN IF route = END THEN END
     ELSE IF tool_calls = <<>> THEN END
     ELSE IF did_cancel THEN "leave_skill"
     ELSE "build_pc_tools"

\* the skill router looking for a cancel anywhere in the history
route_validate_price_history(state) ==
  LET route == tools_condition(state)
      tool_calls == CallsOf(Last(state.messages))
      did_cancel == \E k \in 1..Len(state.messages) :
                      \E i \in 1..Len(CallsOf(state.messages[k])) :
                        CallsOf(state.messages[k])[i].name = CompleteOrEscalate
  IN IF route = END THEN END
     ELSE IF tool_calls = <<>> THEN END
     ELSE IF did_cancel THEN "leave_skill"
     ELSE "price_validation_tools"

route_validate_price(state) ==
  LET route == tools_condition(state)
      tool_calls == CallsOf(Last(state.messages))
      did_cancel == \E i \in 1..Len(tool_calls) :
                       tool_calls[i].name = CompleteOrEscalate
  IN IF route = END THEN END
     ELSE IF tool_calls = <<>> THEN END
     ELSE IF did_cancel THEN "leave_skill"
     ELSE "price_validation_tools"

\* the workflow router ignoring the stack
route_to_workflow_primary(state) == "primary_assistant"

route_to_workflow(state) ==
  LET dialog_state_ == state.dialog_state IN
  IF dialog_state_ = <<>> THEN "primary_assistant"
  ELSE IF Last(dialog_state_) \in {"build_pc", "validate_price",
                                   "primary_assistant"}
       THEN Last(dialog_state_)
  ELSE "primary_assistant"

\* ------------------------------------- the node functions on their own
\* tool calls as the functions may meet them: a name, and an id or none
Calls == [name : ToolNames, id : 0..MaxIds]
DistinctIds(b) ==
  \A i, j \in 1..Len(b) : (i # j /\ b[i].id # NoId) => b[i].id # b[j].id
Batches == {b \in UNION {[1..k -> Calls] : k \in 1..MaxBatch} : DistinctIds(b)}
\* batches as a model answer carries them: every call has an id
HasIds(b) == \A i \in 1..Len(b) : b[i].id # NoId

LastMessages ==
  {HumanMessage("text"), AIMessage("text", <<>>),
   ToolMessage("tool_result", 1, PcBuilderTool, None)}
  \cup {AIMessage("empty", b) : b \in Batches}

\* stacks the router may be handed, one of them with a name it does not know
RouterStacks == Stacks(MaxStack) \cup {<<"build_pc", "primary_assistant">>,
                                       <<"price_validation_checker">>}

\* messages that may stand before the last one in a longer history
EarlierMessages ==
  {HumanMessage("Hello"),
   AIMessage("empty", <<[name |-> CompleteOrEscalate, id |-> 1]>>),
   AIMessage("empty", <<[name |-> ToPCBuildAssistant, id |-> 1]>>)}

FnInputs ==
  {[messages |-> <<m>>, dialog_state |-> <<>>, user_info |-> None,
    raises |-> r, absorbs |-> a] :
     m \in LastMessages, r \in SUBSET (1..MaxBatch), a \in BOOLEAN}
  \cup
  {[messages |-> <<HumanMessage("text")>>, dialog_state |-> st,
    user_info |-> None, raises |-> {}, absorbs |-> TRUE] :
     st \in RouterStacks}
  \cup
  {[messages |-> <<e, m>>, dialog_state |-> st, user_info |-> "hello",
    raises |-> {}, absorbs |-> TRUE] :
     e \in EarlierMessages, m \in LastMessages,
     st \in {<<>>, <<"build_pc">>, <<"build_pc", "validate_price">>}}

InitFn ==
  /\ messages = <<>>
  /\ dialog_state = <<>>
  /\ user_info = None
  /\ shared_memory \in {[last_query |-> None], [last_query |-> "hello"]}
  /\ node = START
  /\ prev = START
  /\ retries = 0
  /\ next_id = 0
  /\ error = "none"
  /\ saved_stack = <<>>
  /\ writes = <<>>
  /\ recursion_limit = ConfiguredRecursionLimit
  /\ path = <<>>
  /\ turn_base = 0
  /\ local_messages = <<>>
  /\ run = [invocations |-> 0, empties |-> 0, done |-> FALSE]
  /\ tool_failures = {}
  /\ args \in FnInputs
  /\ fn = "none"
  /\ ret = None

Apply(name, result) ==
  /\ fn = "none"
  /\ fn' = name
  /\ ret' = result
  /\ UNCHANGED <<args, dialog_state, error, writes>>
  /\ UNCHANGED graph_vars

\* a tools node run on the input; the batch it is given carries ids
InvokeToolNode ==
  \E t \in {"primary_assistant_tools", "build_pc_tools",
            "price_validation_tools"} :
    LET tools == IF t = "primary_assistant_tools" THEN primary_assistant_tools
                 ELSE IF t = "build_pc_tools" THEN pc_build_tools
                 ELSE price_validation_checker_tools
    IN /\ HasIds(Last(args.messages).tool_calls)
       /\ args.raises \subseteq 1..Len(Last(args.messages).tool_calls)
       /\ Apply(t, create_tool_node_with_fallback(tools, args, args.raises,
                                                  args.absorbs))

CallRoutePrimaryAssistant ==
  Apply("route_primary_assistant", Return(route_primary_assistant(args)))

CallRouteBuildPc ==
  Apply("route_build_pc", Return(route_build_pc(args)))

CallRouteValidatePrice ==
  Apply("route_validate_price", Return(route_validate_price(args)))

CallRouteToWorkflow ==
  Apply("route_to_workflow", Return(route_to_workflow(args)))

CallEntryNode ==
  \E e \in {"enter_build_pc", "enter_validate_price"} :
    Apply(e, Return(IF e = "enter_build_pc"
                    THEN create_entry_node("PC Build Assistant", "build_pc",
                                           args)
                    ELSE create_entry_node("Price Validation Assistant",
                                           "validate_price", args)))

CallLeaveSkill == Apply("leave_skill", Return(leave_skill(args)))

NextFn ==
  \/ InvokeToolNode
  \/ CallRoutePrimaryAssistant
  \/ CallRouteBuildPc
  \/ CallRouteValidatePrice
  \/ CallRouteToWorkflow
  \/ CallEntryNode
  \/ CallLeaveSkill

SpecFn == InitFn /\ [][NextFn]_vars

\* ------------------------------------------------- claims on the reducer
Written == Len(writes) >= 1
LastWrite == writes[Len(writes)]

\* C1: "pop" on an empty stack returns the empty stack and raises no error.
C1_PopOnEmptyIsNoOp ==
  (Written /\ LastWrite.op = "pop" /\ LastWrite.before = <<>>)
    => (~LastWrite.raised /\ error = "none" /\ dialog_state = <<>>)

C3_NoneIsIdentity ==
  (Written /\ LastWrite.op = None)
    => (~LastWrite.raised /\ error = "none"
        /\ dialog_state = LastWrite.before)

C3_Witness ==
  /\ Len(writes) = 2
  /\ writes[1].op = None /\ writes[2].op = None
  /\ writes[1].before = <<"build_pc", "validate_price">>
  /\ dialog_state = <<"build_pc", "validate_price">>

\* C4: a push of "assistant", "build_pc" or "validate_price" returns the
\* stack with the name appended and the earlier elements unchanged, and a
\* "pop" right after it returns exactly the stack before the push.
C4_PushAppendsPopRestores ==
  /\ (Written /\ LastWrite.op \in StackNames)
       => /\ ~LastWrite.raised
          /\ Len(dialog_state) = Len(LastWrite.before) + 1
          /\ dialog_state[Len(dialog_state)] = LastWrite.op
          /\ SubSeq(dialog_state, 1, Len(LastWrite.before)) = LastWrite.before
  /\ (Len(writes) = 2 /\ writes[1].op \in StackNames /\ writes[2].op = "pop")
       => (~writes[2].raised /\ dialog_state = writes[1].before)

C4_Witness ==
  /\ Len(writes) = 2
  /\ writes[1].op = "validate_price" /\ writes[2].op = "pop"
  /\ writes[1].before = <<"build_pc">>
  /\ dialog_state = <<"build_pc">>

\* --------------------------------------------------------------- the graph
AssistantNodes == {"primary_assistant", "build_pc", "validate_price"}

\* what a model-with-tools runnable may answer: a content without tool
\* calls, or a batch of calls, each with a fresh id
Contents == {"text", "empty", "blocks_text", "blocks_no_text", "blocks_empty"}
NameBatches == UNION {[1..k -> ToolNames] : k \in 1..MaxBatch}
ModelAnswers ==
  {AIMessage(c, <<>>) : c \in Contents}
  \cup {AIMessage("empty", [i \in 1..Len(nb) |->
                              [name |-> nb[i], id |-> next_id + i]]) :
          nb \in NameBatches}

\* the test of Assistant.__call__ that sends the loop round again:
\* not result.tool_calls and (not result.content or (isinstance(
\* result.content, list) and not result.content[0].get("text")))
\* the test with the block-list case left out
NeedsRetry_stronly(result) ==
  /\ result.tool_calls = <<>>
  /\ result.content \in {"empty", "blocks_empty"}

\* the test with the tool-call case left out
NeedsRetry_ignorecalls(result) ==
  \/ result.content \in {"empty", "blocks_empty"}
  \/ result.content = "blocks_no_text"

NeedsRetry(result) ==
  /\ result.tool_calls = <<>>
  /\ \/ result.content \in {"empty", "blocks_empty"}
     \/ result.content = "blocks_no_text"

\* the conditional edge leaving each assistant node
RouteAfter(n, state) ==
  IF n = "primary_assistant" THEN route_primary_assistant(state)
  ELSE IF n = "build_pc" THEN route_build_pc(state)
  ELSE route_validate_price(state)

\* the unconditional edges
\* the edges with the edge out of enter_validate_price drawn to build_pc
EdgeFrom_crossed(n) ==
  IF n = "primary_assistant_tools" THEN "primary_assistant"
  ELSE IF n = "build_pc_tools" THEN "build_pc"
  ELSE IF n = "price_validation_tools" THEN "validate_price"
  ELSE IF n = "enter_build_pc" THEN "build_pc"
  ELSE IF n = "enter_validate_price" THEN "build_pc"
  ELSE "primary_assistant"

EdgeFrom(n) ==
  IF n = "primary_assistant_tools" THEN "primary_assistant"
  ELSE IF n = "build_pc_tools" THEN "build_pc"
  ELSE IF n = "price_validation_tools" THEN "validate_price"
  ELSE IF n = "enter_build_pc" THEN "build_pc"
  ELSE IF n = "enter_validate_price" THEN "validate_price"
  ELSE "primary_assistant"

State == [messages |-> messages, user_info |-> user_info,
          dialog_state |-> dialog_state]

Init ==
  /\ messages = <<>>
  /\ dialog_state = <<>>
  /\ user_info = None
  /\ shared_memory = [last_query |-> None]
  /\ node = START
  /\ prev = START
  /\ retries = 0
  /\ next_id = 0
  /\ error = "none"
  /\ saved_stack = <<>>
  /\ writes = <<>>
  /\ recursion_limit = ConfiguredRecursionLimit
  /\ path = <<>>
  /\ turn_base = 0
  /\ local_messages = <<>>
  /\ run = [invocations |-> 0, empties |-> 0, done |-> FALSE]
  /\ tool_failures = {}
  /\ args = None
  /\ fn = "none"
  /\ ret = None

\* the add_messages reducer of State.messages: every message of an update
\* has an id of its own, so the update is appended to the history
\* a reducer that keeps the update in place of the history
add_messages_replace(left, right) == right

add_messages(left, right) == left \o right

\* str.lower() on the contents a user message may have
Lower(content) == IF content = "Hello" THEN "hello" ELSE content

\* fetch_user_info: the query it stores in shared_memory["last_query"] and
\* the update it returns; "info" names no channel of State.
fetch_user_info(state) ==
  LET last_message_content == Last(state.messages).content
      user_query ==
        IF last_message_content \in {"Hello", "text", "empty"}
        THEN Lower(last_message_content)
        ELSE IF last_message_content = "blocks_text" THEN Lower("text")
        ELSE "empty"
  IN [last_query |-> user_query, update |-> [info |-> user_query]]

\* the budget letting one node more than the limit start
WithinLimit_offbyone == Len(path) <= recursion_limit

\* the step budget of a turn: a node starts only within the limit
WithinLimit == Len(path) < recursion_limit

IdleRun == [invocations |-> 0, empties |-> 0, done |-> FALSE]

\* an answer with neither tool calls nor text
HasText(content) == content \in {"text", "blocks_text"}
NotActionable(result) == result.tool_calls = <<>> /\ ~HasText(result.content)

\* the count of the running Assistant after one more invocation
Counted(result, done) ==
  [invocations |-> run.invocations + 1,
   empties |-> run.empties + (IF NotActionable(result) THEN 1 ELSE 0),
   done |-> done]

\* ChatBot.respond: graph.stream({"messages": [user message]}, config)
UserMessage ==
  /\ node \in {START, END}
  /\ Len(messages) < MaxMsgs
  /\ messages' = add_messages(messages, <<HumanMessage("Hello")>>)
  /\ node' = "fetch_user_info"
  /\ prev' = START
  /\ error' = "none"
  /\ path' = <<>>
  /\ turn_base' = Len(messages)
  /\ run' = IdleRun
  /\ tool_failures' = {}
  /\ UNCHANGED <<dialog_state, user_info, shared_memory, retries, next_id,
                 saved_stack, writes, recursion_limit, local_messages>>
  /\ UNCHANGED fn_vars

\* fetch_user_info stores the query in shared_memory; its return value
\* {"info": ...} names no channel of State, so the state is left as it is.
FetchUserInfo ==
  /\ node = "fetch_user_info"
  /\ WithinLimit
  /\ shared_memory' = [last_query |-> fetch_user_info(State).last_query]
  /\ node' = route_to_workflow(State)
  /\ prev' = node
  /\ path' = Append(path, node)
  /\ run' = IdleRun
  /\ tool_failures' = {}
  /\ UNCHANGED <<messages, dialog_state, user_info, retries, next_id, error,
                 saved_stack, writes, recursion_limit, turn_base,
                 local_messages>>
  /\ UNCHANGED fn_vars

\* state["messages"] of the local state the runnable is invoked on
InvokeInput == IF retries = 0 THEN messages ELSE local_messages

\* the retry that builds the longer message list from the node's input
\* state each time, so that the prompts do not add up
RetryRound_fromstate(result) ==
  /\ retries < MaxRetries
  /\ local_messages' = messages \o <<HumanMessage("retry_prompt")>>
  /\ retries' = retries + 1
  /\ run' = Counted(result, FALSE)
  /\ UNCHANGED <<messages, node, prev, next_id, saved_stack, path>>

\* the retry that takes a step of the turn's budget
RetryRound_stepped(result) ==
  /\ retries < MaxRetries
  /\ local_messages' = InvokeInput \o <<HumanMessage("retry_prompt")>>
  /\ retries' = retries + 1
  /\ run' = Counted(result, FALSE)
  /\ path' = Append(path, node)
  /\ UNCHANGED <<messages, node, prev, next_id, saved_stack>>

\* the empty-answer branch of Assistant.__call__: the local state gets one
\* more prompt and the loop goes round again, inside the node
RetryRound(result) ==
  /\ retries < MaxRetries
  /\ local_messages' = InvokeInput \o <<HumanMessage("retry_prompt")>>
  /\ retries' = retries + 1
  /\ run' = Counted(result, FALSE)
  /\ UNCHANGED <<messages, node, prev, next_id, saved_stack, path>>

\* the break branch returning the local message list with the answer
ReturnRound_returnslocal(result) ==
  /\ Len(messages) < MaxMsgs
  /\ messages' = InvokeInput \o <<result>>
  /\ retries' = 0
  /\ local_messages' = <<>>
  /\ run' = Counted(result, TRUE)
  /\ next_id' = next_id + Len(result.tool_calls)
  /\ node' = RouteAfter(node, [State EXCEPT !.messages = messages'])
  /\ prev' = node
  /\ path' = Append(path, node)
  /\ saved_stack' = IF node' \in {"enter_build_pc", "enter_validate_price"}
                    THEN dialog_state ELSE saved_stack

\* the break branch: {"messages": result} is written and the conditional
\* edge of the node is taken
ReturnRound(result) ==
  /\ Len(messages) < MaxMsgs
  /\ messages' = add_messages(messages, <<result>>)
  /\ retries' = 0
  /\ local_messages' = <<>>
  /\ run' = Counted(result, TRUE)
  /\ next_id' = next_id + Len(result.tool_calls)
  /\ node' = RouteAfter(node, [State EXCEPT !.messages = messages'])
  /\ prev' = node
  /\ path' = Append(path, node)
  /\ saved_stack' = IF node' \in {"enter_build_pc", "enter_validate_price"}
                    THEN dialog_state ELSE saved_stack

\* One round of the loop of Assistant.__call__: the runnable is invoked on
\* the local state and its answer either sends the loop round again or is
\* returned.
AssistantInvoke ==
  /\ node \in AssistantNodes
  /\ WithinLimit
  /\ \E result \in ModelAnswers :
       IF NeedsRetry(result) THEN RetryRound(result) ELSE ReturnRound(result)
  /\ tool_failures' = {}
  /\ UNCHANGED <<dialog_state, user_info, shared_memory, error, writes,
                 recursion_limit, turn_base>>
  /\ UNCHANGED fn_vars

\* a tools node: the batch of the last message is run, the results appended
ToolsNode ==
  /\ node \in {"primary_assistant_tools", "build_pc_tools",
               "price_validation_tools"}
  /\ WithinLimit
  /\ \E raises \in SUBSET (1..Len(Last(messages).tool_calls)),
        absorbs \in BOOLEAN :
       LET tools == IF node = "primary_assistant_tools"
                    THEN primary_assistant_tools
                    ELSE IF node = "build_pc_tools" THEN pc_build_tools
                    ELSE price_validation_checker_tools
           out == create_tool_node_with_fallback(tools, State, raises,
                                                 absorbs).value
       IN /\ Len(messages) + Len(out.messages) <= MaxMsgs
          /\ messages' = add_messages(messages, out.messages)
          /\ tool_failures' = Failing(tools, Last(messages).tool_calls,
                                      raises)
  /\ node' = EdgeFrom(node)
  /\ prev' = node
  /\ path' = Append(path, node)
  /\ run' = IdleRun
  /\ UNCHANGED <<dialog_state, user_info, shared_memory, retries, next_id,
                 error, saved_stack, writes, recursion_limit, turn_base,
                 local_messages>>
  /\ UNCHANGED fn_vars

\* a node whose update writes messages and dialog_state: the stack goes
\* through the reducer; when it raises the step fails and nothing is written
WriteUpdate(upd) ==
  /\ WithinLimit
  /\ Len(messages) + Len(upd.messages) <= MaxMsgs
  /\ WriteDialogState(upd.dialog_state)
  /\ messages' = IF error' = "none" THEN add_messages(messages, upd.messages)
                 ELSE messages
  /\ node' = IF error' = "none" THEN EdgeFrom(node) ELSE END
  /\ prev' = node
  /\ path' = Append(path, node)
  /\ run' = IdleRun
  /\ tool_failures' = {}
  /\ UNCHANGED <<user_info, shared_memory, retries, next_id, saved_stack,
                 recursion_limit, turn_base, local_messages>>
  /\ UNCHANGED fn_vars

EnterBuildPc ==
  /\ node = "enter_build_pc"
  /\ WriteUpdate(create_entry_node("PC Build Assistant", "build_pc", State))

EnterValidatePrice ==
  /\ node = "enter_validate_price"
  /\ WriteUpdate(create_entry_node("Price Validation Assistant",
                                   "validate_price", State))

LeaveSkill ==
  /\ node = "leave_skill"
  /\ WriteUpdate(leave_skill(State))

\* Within the histories explored here a turn stays far below the configured
\* limit, so the limit never ends a turn of Spec.
Next ==
  \/ UserMessage
  \/ FetchUserInfo
  \/ AssistantInvoke
  \/ ToolsNode
  \/ EnterBuildPc
  \/ EnterValidatePrice
  \/ LeaveSkill

Spec == Init /\ [][Next]_vars

\* ------------------------------------------ the graph under a step limit
\* The turn has used up its steps and a node is still due: the run fails
\* with GraphRecursionError; the snapshot written by the last node stays.
GraphRecursionError ==
  /\ node \notin {START, END}
  /\ ~WithinLimit
  /\ error' = "GraphRecursionError"
  /\ node' = END
  /\ UNCHANGED <<messages, dialog_state, user_info, shared_memory, prev,
                 retries, next_id, saved_stack, writes, recursion_limit,
                 path, turn_base, local_messages, run, tool_failures>>
  /\ UNCHANGED fn_vars

InitLimit ==
  /\ messages = <<>>
  /\ dialog_state = <<>>
  /\ user_info = None
  /\ shared_memory = [last_query |-> None]
  /\ node = START
  /\ prev = START
  /\ retries = 0
  /\ next_id = 0
  /\ error = "none"
  /\ saved_stack = <<>>
  /\ writes = <<>>
  /\ recursion_limit \in 1..MaxLimit
  /\ path = <<>>
  /\ turn_base = 0
  /\ local_messages = <<>>
  /\ run = IdleRun
  /\ tool_failures = {}
  /\ args = None
  /\ fn = "none"
  /\ ret = None

NextLimit ==
  \/ UserMessage
  \/ FetchUserInfo
  \/ AssistantInvoke
  \/ ToolsNode
  \/ EnterBuildPc
  \/ EnterValidatePrice
  \/ LeaveSkill
  \/ GraphRecursionError

SpecLimit == InitLimit /\ [][NextLimit]_vars


\* ---------------------------------------- claims on the node functions
Applied(names) == fn \in names
ToolsNodes == {"primary_assistant_tools", "build_pc_tools",
               "price_validation_tools"}
InputBatch == CallsOf(Last(args.messages))

\* C5: whatever subset of the tools of a batch raises, the tools node does
\* not raise and returns exactly one tool message per call of the batch,
\* in the order of the calls, each with the id of its call.
C5_OneResultPerCall ==
  (Applied(ToolsNodes) /\ InputBatch # <<>>)
    => /\ ~ret.raised
       /\ Len(ret.value.messages) = Len(InputBatch)
       /\ \A i \in 1..Len(InputBatch) :
            /\ ret.value.messages[i].type = "tool"
            /\ ret.value.messages[i].tool_call_id = InputBatch[i].id

C5_Witness ==
  /\ fn = "build_pc_tools"
  /\ Len(InputBatch) = 2
  /\ InputBatch[1].name = PcBuilderTool /\ InputBatch[2].name = PcBuilderTool
  /\ args.raises = {2} /\ ~args.absorbs
  /\ ret.value.messages[2].content = "error_fix_mistakes"
  /\ ret.value.messages[2].tool_call_id = InputBatch[2].id

\* C6: the primary router answers END when the last message has no tool
\* calls, and otherwise decides on the name of the first call alone:
\* ToPCBuildAssistant gives enter_build_pc, ToPriceValidationChecker-
\* Assistant gives enter_validate_price, any other name gives
\* primary_assistant_tools.
C6_PrimaryRoutesOnFirstCall ==
  Applied({"route_primary_assistant"})
    => ret.value =
         IF InputBatch = <<>> THEN END
         ELSE IF InputBatch[1].name = ToPCBuildAssistant
              THEN "enter_build_pc"
         ELSE IF InputBatch[1].name = ToPriceValidationCheckerAssistant
              THEN "enter_validate_price"
         ELSE "primary_assistant_tools"

C6_Witness ==
  /\ fn = "route_primary_assistant"
  /\ Len(InputBatch) = 2
  /\ InputBatch[1].name = PcBuilderTool
  /\ InputBatch[2].name = ToPCBuildAssistant
  /\ ret.value = "primary_assistant_tools"

SkillToolsNode == IF fn = "route_build_pc" THEN "build_pc_tools"
                  ELSE "price_validation_tools"

\* C7 as stated: the skill routers decide on the first call alone, so an
\* ordinary first call followed by CompleteOrEscalate goes to the tools node.
C7_SkillRoutesOnFirstCall ==
  Applied({"route_build_pc", "route_validate_price"})
    => ret.value =
         IF InputBatch = <<>> THEN END
         ELSE IF InputBatch[1].name = CompleteOrEscalate THEN "leave_skill"
         ELSE SkillToolsNode

\* C7 amended: the skill routers answer END without tool calls, leave_skill
\* when any call of the batch is CompleteOrEscalate, and the skill's tools
\* node otherwise.
C7_SkillRoutesOnAnyCancel ==
  Applied({"route_build_pc", "route_validate_price"})
    => ret.value =
         IF InputBatch = <<>> THEN END
         ELSE IF \E i \in 1..Len(InputBatch) :
                   InputBatch[i].name = CompleteOrEscalate
              THEN "leave_skill"
         ELSE SkillToolsNode

C7_Witness ==
  /\ fn = "route_build_pc"
  /\ Len(InputBatch) = 2
  /\ InputBatch[1].name = PcBuilderTool
  /\ InputBatch[2].name = CompleteOrEscalate
  /\ ret.value = "leave_skill"

\* ------------------------------------------------- claims on the graph
\* C8: at the start of a turn fetch_user_info hands over to
\* primary_assistant when the dialog stack is empty and to the node of the
\* skill on top of the stack otherwise; a turn that ended inside a skill is
\* resumed in that skill without a visit of primary_assistant.
C8_ResumeAtTopOfStack ==
  prev = "fetch_user_info"
    => node = IF dialog_state = <<>> THEN "primary_assistant"
              ELSE Last(dialog_state)

\* a second turn that starts in build_pc: the turn before ended with a
\* text answer of build_pc, the stack still holding the skill
C8_Witness ==
  /\ prev = "fetch_user_info"
  /\ node = "build_pc"
  /\ dialog_state = <<"build_pc">>
  /\ Len(messages) = 5
  /\ messages[3].content = "entry_announcement"
  /\ messages[4].type = "ai" /\ messages[4].tool_calls = <<>>
  /\ messages[5].type = "human"

\* C9: after a delegation from primary_assistant and the skill's
\* CompleteOrEscalate, leave_skill has put the dialog stack back to what it
\* was when the delegation was routed and the next node is
\* primary_assistant.
C9_RoundTrip ==
  prev = "leave_skill"
    => /\ error = "none"
       /\ node = "primary_assistant"
       /\ dialog_state = saved_stack

C9_Witness ==
  /\ prev = "leave_skill"
  /\ node = "primary_assistant"
  /\ Len(messages) = 5
  /\ messages[2].tool_calls[1].name = ToPriceValidationCheckerAssistant
  /\ messages[4].tool_calls[1].name = CompleteOrEscalate
  /\ messages[5].content = "leave_announcement"
  /\ dialog_state = saved_stack

\* C10: after a delegation to the PC-build skill from an empty stack the
\* entry node has appended one tool message, addressed to the id of the
\* delegating call, and pushed the skill: build_pc runs next with
\* dialog_state = <<"build_pc">> and the announcement as the last message.
C10_EntryAnnouncesAndPushes ==
  (prev = "enter_build_pc" /\ saved_stack = <<>>)
    => /\ node = "build_pc"
       /\ dialog_state = <<"build_pc">>
       /\ Len(messages) >= 2
       /\ LET call == messages[Len(messages) - 1] IN
          /\ call.type = "ai"
          /\ call.tool_calls # <<>>
          /\ call.tool_calls[1].name = ToPCBuildAssistant
          /\ Last(messages).type = "tool"
          /\ Last(messages).content = "entry_announcement"
          /\ Last(messages).tool_call_id = call.tool_calls[1].id

C10_Witness ==
  /\ prev = "enter_build_pc"
  /\ node = "build_pc"
  /\ retries = 0
  /\ dialog_state = <<"build_pc">>
  /\ Len(messages) = 3
  /\ Len(messages[2].tool_calls) = 2
  /\ messages[3].content = "entry_announcement"
  /\ messages[3].tool_call_id = messages[2].tool_calls[1].id

\* C11: whenever an assistant node is about to run, every tool call of
\* every assistant message of the history has exactly one tool message
\* with its id, also the calls after the first of a batch that delegates
\* or escalates.
Answers(id) ==
  {j \in 1..Len(messages) :
     messages[j].type = "tool" /\ messages[j].tool_call_id = id}

C11_CallsPairedAtAssistant ==
  node \in AssistantNodes
    => \A i \in 1..Len(messages) :
         \A k \in 1..Len(messages[i].tool_calls) :
           Cardinality(Answers(messages[i].tool_calls[k].id)) = 1

\* C12: the message an assistant node returns has a tool call or text: a
\* non-empty string or a block list whose first block has text.
C12_ReturnedIsActionable ==
  \A i \in 1..Len(messages) :
    messages[i].type = "ai"
      => \/ messages[i].tool_calls # <<>>
         \/ messages[i].content \in {"text", "blocks_text"}

C12_Witness ==
  /\ run.done /\ run.empties = 1
  /\ prev = "build_pc"
  /\ Last(messages).type = "ai"
  /\ Last(messages).tool_calls = <<>>
  /\ Last(messages).content = "blocks_text"

\* C13: an assistant node that got k answers with neither tool calls nor
\* text and then one with either has invoked the runnable k + 1 times and
\* returned that answer; the i-th retry runs on the history plus i prompts.
Prompts(n) == [i \in 1..n |-> HumanMessage("retry_prompt")]

C13_RetryCount ==
  /\ (node \in AssistantNodes /\ retries > 0)
       => /\ local_messages = messages \o Prompts(retries)
          /\ run = [invocations |-> retries, empties |-> retries,
                    done |-> FALSE]
  /\ run.done
       => /\ run.invocations = run.empties + 1
          /\ Last(messages).type = "ai"
          /\ ~NotActionable(Last(messages))

C13_Witness ==
  /\ run.done
  /\ run.empties = 2 /\ run.invocations = 3
  /\ prev = "primary_assistant"
  /\ Last(messages).tool_calls # <<>>

\* C14 as stated: the retry loop of an assistant node is bounded by the
\* step limit of the turn, so the steps taken plus the retries made never
\* exceed the limit.
C14_RetriesWithinStepLimit ==
  node \in AssistantNodes => Len(path) + retries <= recursion_limit

\* C14 amended: a retry runs inside the node and takes no step, so the
\* step limit does not bound the loop: while the node retries the turn is
\* within its limit and has not failed.
C14_RetriesTakeNoStep ==
  /\ [](retries > 0 => (node \in AssistantNodes /\ WithinLimit
                        /\ error = "none"))
  /\ [][retries' > retries => (path' = path /\ node' = node
                               /\ messages' = messages)]_vars

C14_Witness ==
  /\ recursion_limit = 2
  /\ node = "primary_assistant"
  /\ path = <<"fetch_user_info">>
  /\ retries = 2
  /\ error = "none"

C16_PlainAnswerTurn ==
  (/\ Len(path) >= 2
   /\ path[1] = "fetch_user_info"
   /\ path[2] = "primary_assistant"
   /\ messages[turn_base + 2].tool_calls = <<>>)
    => /\ path = <<"fetch_user_info", "primary_assistant">>
       /\ node = END
       /\ error = "none"
       /\ Len(messages) = turn_base + 2
       /\ messages[turn_base + 1].type = "human"
       /\ messages[turn_base + 2].type = "ai"
       /\ HasText(messages[turn_base + 2].content)
       /\ dialog_state = <<>>

C16_Witness ==
  /\ node = END
  /\ path = <<"fetch_user_info", "primary_assistant">>
  /\ turn_base = 2
  /\ Len(messages) = 4
  /\ messages[3].type = "human"
  /\ messages[4].content = "text"
  /\ dialog_state = <<>>

\* C17: a tools node only appends tool messages and leaves dialog_state
\* and user_info alone; inside build_pc a call whose tool raises is answered
\* by a tool message that renders the exception, the turn goes on with
\* build_pc and dialog_state is still <<"build_pc">>.
IsPrefix(s, t) == Len(s) <= Len(t) /\ SubSeq(t, 1, Len(s)) = s
LastAI == CHOOSE i \in 1..Len(messages) :
            /\ messages[i].type = "ai"
            /\ \A j \in (i + 1)..Len(messages) : messages[j].type # "ai"

ToolsNodeStep ==
  node \in ToolsNodes
    => /\ dialog_state' = dialog_state
       /\ user_info' = user_info
       /\ error' = "none"
       /\ node' = EdgeFrom(node)
       /\ IsPrefix(messages, messages')
       /\ \A j \in (Len(messages) + 1)..Len(messages') :
            messages'[j].type = "tool"

C17_ToolsNodeFrame ==
  /\ [][ToolsNodeStep]_vars
  /\ [](prev = "build_pc_tools"
          => /\ node = "build_pc"
             /\ dialog_state = <<"build_pc">>
             /\ \A i \in tool_failures :
                  /\ messages[LastAI + i].type = "tool"
                  /\ messages[LastAI + i].tool_call_id
                       = messages[LastAI].tool_calls[i].id
                  /\ messages[LastAI + i].error = "ToolException")

C17_Witness ==
  /\ prev = "build_pc_tools"
  /\ node = "build_pc"
  /\ dialog_state = <<"build_pc">>
  /\ tool_failures = {2}
  /\ Len(messages[LastAI].tool_calls) = 2
  /\ messages[LastAI].tool_calls[2].name = PcBuilderTool
  /\ Last(messages).content = "error_fix_mistakes"
  /\ Last(messages).error = "ToolException"

\* C18: what a router returns is fixed by the last message and the dialog
\* stack alone: on a state with a longer history and a user_info it returns
\* what it returns on the state cut down to the last message and the stack.
Observed(state) ==
  [messages |-> <<Last(state.messages)>>, dialog_state |-> state.dialog_state]

C18_RoutersReadLastMessageAndStack ==
  /\ fn = "route_primary_assistant"
       => ret = Return(route_primary_assistant(Observed(args)))
  /\ fn = "route_build_pc" => ret = Return(route_build_pc(Observed(args)))
  /\ fn = "route_validate_price"
       => ret = Return(route_validate_price(Observed(args)))
  /\ fn = "route_to_workflow"
       => ret = Return(route_to_workflow(Observed(args)))

C18_Witness ==
  /\ fn = "route_validate_price"
  /\ Len(args.messages) = 2
  /\ args.messages[1].type = "ai"
  /\ args.messages[1].tool_calls[1].name = CompleteOrEscalate
  /\ Last(args.messages).type = "ai"
  /\ Len(Last(args.messages).tool_calls) = 2
  /\ Last(args.messages).tool_calls[1].name = RegardParserTool
  /\ args.user_info = "hello"
  /\ shared_memory.last_query = "hello"
  /\ args.dialog_state = <<"build_pc", "validate_price">>
  /\ ret = Return("price_validation_tools")

\* C19: the message history is append-only: across every step, and across
\* turns, the history before the step is a prefix of the history after it.
C19_HistoryAppendOnly == [][IsPrefix(messages, messages')]_vars

C19_Witness ==
  /\ turn_base = 4
  /\ Len(messages) = 6
  /\ messages[1].type = "human"
  /\ messages[2].tool_calls # <<>>
  /\ messages[3].type = "tool"
  /\ messages[4].type = "ai"
  /\ messages[5].type = "human"
  /\ messages[6].type = "ai"

\* C20: the persisted snapshot is the only state conversations share: no
\* node writes a graph-wide variable, so shared_memory never changes.
C20_NoGraphWideWrite == [][shared_memory' = shared_memory]_vars

\* C21: every call of a batch whose tool ran successfully is answered by a
\* tool message with the id of the call and the return value of the tool,
\* whether or not another call of the batch raised; only the calls that
\* raised are answered by an error.
BoundTools(t) ==
  IF t = "primary_assistant_tools" THEN primary_assistant_tools
  ELSE IF t = "build_pc_tools" THEN pc_build_tools
  ELSE price_validation_checker_tools

C21_SuccessKeepsReturnValue ==
  (Applied(ToolsNodes) /\ InputBatch # <<>>)
    => \A i \in 1..Len(InputBatch) :
         IF i \in Failing(BoundTools(fn), InputBatch, args.raises)
         THEN ret.value.messages[i].error # None
         ELSE /\ ret.value.messages[i].tool_call_id = InputBatch[i].id
              /\ ret.value.messages[i].content = "tool_result"
              /\ ret.value.messages[i].error = None

\* C22 as stated: run on a state whose last message has no tool calls, the
\* tools node does not raise and returns exactly one tool message, with
\* the empty call id and an error text.
C22_NoCallsGivesOneError ==
  (Applied(ToolsNodes) /\ InputBatch = <<>>)
    => /\ ~ret.raised
       /\ Len(ret.value.messages) = 1
       /\ ret.value.messages[1].type = "tool"
       /\ ret.value.messages[1].tool_call_id = EmptyToolCallId
       /\ ret.value.messages[1].content = "error_no_call_id"

\* C22 amended: run on a state whose last message has no tool calls, the
\* tools node never raises; when the last message is not an assistant
\* message it returns exactly one tool message with the empty call id, the
\* name error_handler and an error text rendering the exception; when it
\* is an assistant message without tool calls it returns no message.
C22_NoCallsNeverRaises ==
  (Applied(ToolsNodes) /\ InputBatch = <<>>)
    => /\ ~ret.raised
       /\ IF Last(args.messages).type = "ai"
          THEN ret.value.messages = <<>>
          ELSE /\ Len(ret.value.messages) = 1
               /\ ret.value.messages[1].type = "tool"
               /\ ret.value.messages[1].tool_call_id = EmptyToolCallId
               /\ ret.value.messages[1].name = "error_handler"
               /\ ret.value.messages[1].content = "error_no_call_id"
               /\ ret.value.messages[1].error = "ValueError"

C22_Witness ==
  /\ fn = "price_validation_tools"
  /\ Last(args.messages).type = "human"
  /\ ~ret.raised
  /\ Len(ret.value.messages) = 1
  /\ ret.value.messages[1].tool_call_id = EmptyToolCallId
  /\ ret.value.messages[1].error = "ValueError"

\* C23: an entry node run on a last message without a usable call id (not
\* an assistant message, no tool calls, or a first call without id) does
\* not fail: it returns exactly one tool message with the sentinel call id
\* and the reduced text, and its dialog_state update still pushes the skill.
EntryNodes == {"enter_build_pc", "enter_validate_price"}
TargetOf(e) == IF e = "enter_build_pc" THEN "build_pc" ELSE "validate_price"
AssistantNameOf(e) ==
  IF e = "enter_build_pc" THEN "PC Build Assistant"
  ELSE "Price Validation Assistant"
NoUsableCallId == InputBatch = <<>> \/ InputBatch[1].id = NoId

C23_EntryWithoutCallId ==
  (Applied(EntryNodes) /\ NoUsableCallId)
    => /\ ~ret.raised
       /\ Len(ret.value.messages) = 1
       /\ ret.value.messages[1].type = "tool"
       /\ ret.value.messages[1].tool_call_id = UnknownToolCallId
       /\ ret.value.messages[1].content = "entry_no_call_id"
       /\ ret.value.messages[1].name = AssistantNameOf(fn)
       /\ ret.value.dialog_state = TargetOf(fn)
       /\ update_dialog_stack(args.dialog_state, ret.value.dialog_state)
            = Return(Append(args.dialog_state, TargetOf(fn)))

C23_Witness ==
  /\ fn = "enter_validate_price"
  /\ Len(InputBatch) = 2
  /\ InputBatch[1].id = NoId
  /\ InputBatch[2].id # NoId
  /\ args.dialog_state = <<"build_pc">>
  /\ ret.value.messages[1].tool_call_id = UnknownToolCallId
  /\ ret.value.dialog_state = "validate_price"

\* C24 as stated: leave_skill returns exactly one tool message, addressed
\* to the id of the first call, whenever the last message carries tool
\* calls, and no message otherwise; its "pop" removes exactly the top
\* element of the stack.
ButLast(s) == SubSeq(s, 1, Len(s) - 1)

StackFrameStep ==
  /\ node \in EntryNodes
       => dialog_state' \in {dialog_state,
                             Append(dialog_state, TargetOf(node))}
  /\ (node \in EntryNodes /\ node' # node)
       => dialog_state' = Append(dialog_state, TargetOf(node))
  /\ (node = "leave_skill" /\ node' # node)
       => /\ dialog_state # <<>>
          /\ dialog_state' = ButLast(dialog_state)
  /\ node \notin (EntryNodes \cup {"leave_skill"})
       => dialog_state' = dialog_state
  /\ dialog_state' # dialog_state
       => /\ writes' # <<>>
          /\ Last(writes').before = dialog_state
          /\ Last(writes').after = dialog_state'
          /\ update_dialog_stack(dialog_state, Last(writes').op)
               = Return(dialog_state')

C25_StackChangesOnlyAtEntryAndExit == [][StackFrameStep]_vars

C25_Witness ==
  /\ prev = "leave_skill"
  /\ dialog_state = <<>>
  /\ Len(writes) = 2
  /\ writes[1].op = "validate_price"
  /\ writes[1].after = <<"validate_price">>
  /\ writes[2].op = "pop"
  /\ writes[2].before = <<"validate_price">>
  /\ path = <<"fetch_user_info", "primary_assistant", "enter_validate_price",
              "validate_price", "leave_skill">>

\* C26: within a turn the node that runs right after primary_assistant_tools
\* is primary_assistant, after build_pc_tools build_pc, after
\* price_validation_tools validate_price, after enter_build_pc build_pc,
\* after enter_validate_price validate_price and after leave_skill
\* primary_assistant: one successor each.
Successors ==
  {<<"primary_assistant_tools", "primary_assistant">>,
   <<"build_pc_tools", "build_pc">>,
   <<"price_validation_tools", "validate_price">>,
   <<"enter_build_pc", "build_pc">>,
   <<"enter_validate_price", "validate_price">>,
   <<"leave_skill", "primary_assistant">>}
\* the node that ran after the i-th node of the turn, or is due to run
After(i) == IF i < Len(path) THEN path[i + 1] ELSE node

C26_UnconditionalEdges ==
  \A i \in 1..Len(path) :
    \A e \in Successors : path[i] = e[1] => After(i) = e[2]

C26_Witness ==
  /\ path = <<"fetch_user_info", "primary_assistant", "enter_validate_price",
              "validate_price", "leave_skill", "primary_assistant">>
  /\ node = END
  /\ error = "none"

\* C27: in every state reached from the empty stack, over any number of
\* turns, model answers, tool outcomes and step limits, dialog_state has
\* at most one element and never holds "assistant": delegation is not
\* nested.
C27_NoNestedDelegation ==
  /\ Len(dialog_state) <= 1
  /\ \A i \in 1..Len(dialog_state) : dialog_state[i] # "assistant"

C27_Witness ==
  /\ dialog_state = <<"build_pc">>
  /\ turn_base = 3
  /\ prev = "fetch_user_info"
  /\ node = "build_pc"
  /\ error = "none"
  /\ messages[2].tool_calls[1].name = ToPCBuildAssistant
  /\ messages[4].type = "human"

\* C28: whenever leave_skill is due in a run started from the empty stack,
\* dialog_state is not empty, so its "pop" removes an element; the reducer
\* raises in no reachable execution.
C28_LeaveFindsSkillOnStack ==
  /\ node = "leave_skill" => dialog_state # <<>>
  /\ error # "ValueError"
  /\ \A i \in 1..Len(writes) :
       /\ ~writes[i].raised
       /\ writes[i].op = "pop"
            => /\ writes[i].before # <<>>
               /\ writes[i].after = ButLast(writes[i].before)

C28_Witness ==
  /\ prev = "leave_skill"
  /\ node = "primary_assistant"
  /\ error = "none"
  /\ recursion_limit = MaxLimit
  /\ Len(writes) = 2
  /\ writes[2].op = "pop"
  /\ writes[2].before = <<"build_pc">>
  /\ writes[2].after = <<>>
  /\ dialog_state = <<>>

\* C29: the node that is due agrees with the stack: build_pc and
\* build_pc_tools run with "build_pc" on top, validate_price and
\* price_validation_tools with "validate_price" on top, primary_assistant
\* and primary_assistant_tools with the empty stack.
C29_NodeAgreesWithStack ==
  /\ node \in {"build_pc", "build_pc_tools"}
       => (dialog_state # <<>> /\ Last(dialog_state) = "build_pc")
  /\ node \in {"validate_price", "price_validation_tools"}
       => (dialog_state # <<>> /\ Last(dialog_state) = "validate_price")
  /\ node \in {"primary_assistant", "primary_assistant_tools"}
       => dialog_state = <<>>

C29_Witness ==
  /\ node = "price_validation_tools"
  /\ dialog_state = <<"validate_price">>
  /\ Last(messages).tool_calls[1].name = RegardParserTool
  /\ turn_base = 3
  /\ path = <<"fetch_user_info", "validate_price">>

\* C30: the prompts of the retry loop stay in the node's local copy of the
\* state: a retry leaves the history as it is, the node's return appends
\* exactly one message, the actionable answer, whatever the number of
\* retries before it, and no retry prompt is ever in the history.
AssistantStep ==
  node \in AssistantNodes
    => \/ messages' = messages
       \/ /\ Len(messages') = Len(messages) + 1
          /\ IsPrefix(messages, messages')
          /\ Last(messages').type = "ai"
          /\ ~NotActionable(Last(messages'))
          /\ run'.done
          /\ run'.empties = retries
          /\ retries' = 0

C30_RetryPromptsStayLocal ==
  /\ [][AssistantStep]_vars
  /\ [][retries' > retries => messages' = messages]_vars
  /\ [](\A i \in 1..Len(messages) : messages[i].content # "retry_prompt")
  /\ [](retries > 0 => /\ Last(local_messages).content = "retry_prompt"
                       /\ Len(local_messages) = Len(messages) + retries)

C30_Witness ==
  /\ run.done
  /\ run.empties = 2
  /\ prev = "build_pc"
  /\ Len(messages) = 4
  /\ messages[3].type = "tool"
  /\ messages[4].type = "ai"
  /\ messages[4].content = "text"
  /\ local_messages = <<>>

====
